---- MODULE Spec2Model ----
(***************************************************************************)
(* One invocation of the POST /api/graphql route of web/index.js: the      *)
(* dispatch on requestName and the two-phase handlers                      *)
(* createDeliveryCustomization and createPaymentCustomization (create      *)
(* mutation, then metafieldsSet mutation), with the remote GraphQL client  *)
(* as the environment that resolves or rejects each awaited query.         *)
(*                                                                         *)
(* JavaScript values are records [t, s]: t is the type tag and s the       *)
(* string's characters, one per element (fixed template text is kept as    *)
(* whole fragments).  Arrays of user errors are records [t, elems].        *)
(***************************************************************************)
EXTENDS Naturals, Sequences, FiniteSets

VARIABLES
  pc,                \* position of the async handler
  body,              \* req.body
  requestName,       \* const requestName of the route handler
  calls,             \* graphqlClient.query calls issued, in order
  createResponse,    \* what the create query resolved to
  metafieldResponse, \* what the metafieldsSet query resolved to
  error,             \* the exception caught by the handler's catch block
  res                \* responses sent on res, in order

vars == <<pc, body, requestName, calls, createResponse, metafieldResponse, error, res>>

-----------------------------------------------------------------------------
(* Bounds of the model *)

MaxStrLen == 1   \* longest payload field value, in characters
MaxErrors == 2   \* longest userErrors list a remote response carries

-----------------------------------------------------------------------------
(* JavaScript values *)

Undefined == [t |-> "undefined", s |-> <<>>]
Str(chars) == [t |-> "string", s |-> chars]
Obj(name) == [t |-> "object", s |-> <<name>>]

\* Characters of payload values: a plain one and the two JSON.stringify escapes.
Chars == {"a", "\"", "\\"}
StringsUpTo(n) == UNION {[1..k -> Chars] : k \in 0..n}
FieldValues == {Str(c) : c \in StringsUpTo(MaxStrLen)} \cup {Undefined}
FunctionIds == {Str(<<"f">>), Undefined}

DeliveryName == Str(<<"createDeliveryCustomization">>)
PaymentName == Str(<<"createPaymentCustomization">>)
UnroutedNames == {Str(<<"unknown">>), Undefined}

\* Request bodies as express.json() hands them over.  A request carries the
\* fields of its own kind; the other kind's fields are absent.
Bodies ==
  {[requestName |-> DeliveryName, functionId |-> f, zip |-> a, message |-> b,
    paymentMethod |-> Undefined, cartTotal |-> Undefined]
     : f \in FunctionIds, a \in FieldValues, b \in FieldValues}
  \cup
  {[requestName |-> PaymentName, functionId |-> f, zip |-> Undefined,
    message |-> Undefined, paymentMethod |-> a, cartTotal |-> b]
     : f \in FunctionIds, a \in FieldValues, b \in FieldValues}
  \cup
  {[requestName |-> n, functionId |-> f, zip |-> a, message |-> Undefined,
    paymentMethod |-> b, cartTotal |-> Undefined]
     : n \in UnroutedNames, f \in FunctionIds,
       a \in {Str(<<"a">>), Undefined}, b \in {Str(<<"a">>), Undefined}}

\* String(v) of a template literal's ${v}
ToString(v) == IF v.t = "undefined" THEN <<"undefined">> ELSE v.s

-----------------------------------------------------------------------------
(* Remote responses and exceptions *)

Messages == {<<>>, <<"A">>, <<"B", " ", "r">>}
UserErrorLists == UNION {[1..k -> {[message |-> m] : m \in Messages}] : k \in 0..MaxErrors}

Null == [t |-> "null", elems |-> <<>>]
Arr(list) == [t |-> "array", elems |-> list]
PlainObject == [t |-> "object", elems |-> <<>>]
UserErrorsValues == {Arr(l) : l \in UserErrorLists} \cup {Null}

NoCustomization == [isNull |-> TRUE, id |-> ""]
Customizations == {NoCustomization} \cup {[isNull |-> FALSE, id |-> i] : i \in {"gid1", "gid2"}}

\* body.data absent, data.<kind>CustomizationCreate null, or a mutation payload
NoResponse == [data |-> "pending", customization |-> NoCustomization, userErrors |-> Null]
CreateResponses ==
  {[data |-> d, customization |-> NoCustomization, userErrors |-> Null]
     : d \in {"missing", "nullResult"}}
  \cup
  {[data |-> "result", customization |-> c, userErrors |-> u]
     : c \in Customizations, u \in UserErrorsValues}

MetafieldResponses ==
  {[data |-> d, customization |-> NoCustomization, userErrors |-> Null]
     : d \in {"missing", "nullResult"}}
  \cup
  {[data |-> "result", customization |-> NoCustomization, userErrors |-> Arr(l)]
     : l \in UserErrorLists}

NoError == [class |-> "none", response |-> Undefined]
TypeError == [class |-> "TypeError", response |-> Undefined]
ClientErrors ==
  {[class |-> "GraphqlQueryError", response |-> Obj(r)] : r \in {"response1", "response2"}}
  \cup {[class |-> "HttpResponseError", response |-> Obj("response1")]}

-----------------------------------------------------------------------------
(* res.status(code).send(body) *)

StatusOk == 200
StatusError == 500

EmptyBody == [hasError |-> FALSE, error |-> Undefined]
ErrorBody(e) == [hasError |-> TRUE, error |-> e]
Send(r, status, b) == Append(r, [status |-> status, body |-> b])

-----------------------------------------------------------------------------
(* handleUserError *)

\* userErrors.map((error) => error.message)
MapMessage(elems) == [i \in 1..Len(elems) |-> elems[i].message]

\* Array.prototype.join(sep)
RECURSIVE Join(_, _)
Join(parts, sep) ==
  IF Len(parts) = 0 THEN <<>>
  ELSE IF Len(parts) = 1 THEN parts[1]
  ELSE parts[1] \o sep \o Join(Tail(parts), sep)

HasUserErrors_MoreThanOne(userErrors) == userErrors.t = "array" /\ Len(userErrors.elems) > 1

\* userErrors && userErrors.length > 0: null and undefined are falsy, and a
\* plain object has no length property (undefined > 0 is false).
HasUserErrors(userErrors) == userErrors.t = "array" /\ Len(userErrors.elems) > 0

HandleUserError_NoSeparator(userErrors, r) ==
  IF HasUserErrors(userErrors)
  THEN [returned |-> TRUE,
        res |-> Send(r, StatusError, ErrorBody(Str(Join(MapMessage(userErrors.elems), <<>>))))]
  ELSE [returned |-> FALSE, res |-> r]

HandleUserError_NoReturn(userErrors, r) ==
  IF HasUserErrors(userErrors)
  THEN [returned |-> FALSE,
        res |-> Send(r, StatusError, ErrorBody(Str(Join(MapMessage(userErrors.elems), <<" ">>))))]
  ELSE [returned |-> FALSE, res |-> r]

\* The value returned and res after the call.
HandleUserError(userErrors, r) ==
  IF HasUserErrors(userErrors)
  THEN [returned |-> TRUE,
        res |-> Send(r, StatusError, ErrorBody(Str(Join(MapMessage(userErrors.elems), <<" ">>))))]
  ELSE [returned |-> FALSE, res |-> r]

-----------------------------------------------------------------------------
(* JSON.stringify of an object of string-valued properties *)

Escape_None(chars) == chars

\* String escaping of JSON.stringify, for the characters of Chars.
RECURSIVE Escape(_)
Escape(chars) ==
  IF Len(chars) = 0 THEN <<>>
  ELSE (IF Head(chars) \in {"\"", "\\"} THEN <<"\\", Head(chars)>> ELSE <<Head(chars)>>)
       \o Escape(Tail(chars))

Quote(chars) == <<"\"">> \o Escape(chars) \o <<"\"">>

\* Properties whose value is undefined are left out.
RECURSIVE Members(_)
Members(props) ==
  IF Len(props) = 0 THEN <<>>
  ELSE IF Head(props).value.t = "undefined" THEN Members(Tail(props))
  ELSE <<Quote(Head(props).key) \o <<":">> \o Quote(Head(props).value.s)>>
       \o Members(Tail(props))

JSONStringify(props) == <<"{">> \o Join(Members(props), <<",">>) \o <<"}">>

-----------------------------------------------------------------------------
(* The queries of the two handlers *)

KeyZip == <<"z", "i", "p">>
KeyMessage == <<"m", "e", "s", "s", "a", "g", "e">>
KeyPaymentMethod == <<"p", "a", "y", "m", "e", "n", "t", "M", "e", "t", "h", "o", "d">>
KeyPaymentMethodName == KeyPaymentMethod \o <<"N", "a", "m", "e">>
KeyCartTotal == <<"c", "a", "r", "t", "T", "o", "t", "a", "l">>

Query(mutation, namespace, functionId, title, customizationId, configurationValue) ==
  [mutation |-> mutation, namespace |-> namespace, functionId |-> functionId,
   title |-> title, customizationId |-> customizationId,
   configurationValue |-> configurationValue]

PaymentCreateQuery(payload) ==
  Query("PaymentCustomizationCreate", "", payload.functionId,
        <<"Hide ">> \o ToString(payload.paymentMethod)
          \o <<" if cart total is larger than ">> \o ToString(payload.cartTotal),
        "", <<>>)

DeliveryCreateQuery(payload) ==
  Query("DeliveryCustomizationCreate", "", payload.functionId,
        <<"Display message for postal code: ">> \o ToString(payload.zip),
        "", <<>>)

PaymentConfigurationValue(payload) ==
  JSONStringify(<<[key |-> KeyPaymentMethodName, value |-> payload.paymentMethod],
                  [key |-> KeyCartTotal, value |-> payload.cartTotal]>>)

DeliveryConfigurationValue(payload) ==
  JSONStringify(<<[key |-> KeyZip, value |-> payload.zip],
                  [key |-> KeyMessage, value |-> payload.message]>>)

PaymentMetafieldQuery(payload, customizationId) ==
  Query("MetafieldsSet", "$app:payment-customization", Undefined, <<>>,
        customizationId, PaymentConfigurationValue(payload))

DeliveryMetafieldQuery(payload, customizationId) ==
  Query("MetafieldsSet", "$app:delivery-customization", Undefined, <<>>,
        customizationId, DeliveryConfigurationValue(payload))

-----------------------------------------------------------------------------
(* The route handler's switch on requestName *)

Route_DefaultToPayment(name) ==
  IF name = DeliveryName THEN "createDeliveryCustomization"
  ELSE "createPaymentCustomization"

Route(name) ==
  IF name = DeliveryName THEN "createDeliveryCustomization"
  ELSE IF name = PaymentName THEN "createPaymentCustomization"
  ELSE "default"

-----------------------------------------------------------------------------
(* The handlers' steps.  A step yields the handler's next position, res,   *)
(* the calls issued so far and the exception it ends with.                 *)

Outcome(p, r, c, e) == [pc |-> p, res |-> r, calls |-> c, error |-> e]

CatchBlock_CatchAll(e, r, c) ==
  Outcome("returned", Send(r, StatusError, ErrorBody(e.response)), c, e)

CatchBlock_Rethrow(e, r, c) == Outcome("thrown", r, c, e)

\* catch (error): anything but a GraphqlQueryError is thrown on.
CatchBlock(e, r, c) ==
  IF e.class # "GraphqlQueryError"
  THEN Outcome("thrown", r, c, e)
  ELSE Outcome("returned", Send(r, StatusError, ErrorBody(e.response)), c, e)

CustomizationId_Constant(createResult) == "gid1"

\* createResult.<kind>Customization.id
CustomizationId(createResult) == createResult.customization.id

\* metafieldResponse.body.data.metafieldsSet, as handleUserError receives it:
\* the mutation payload object itself (or null), not its userErrors list.
MetafieldResult(r) == IF r.data = "nullResult" THEN Null ELSE PlainObject

\* From the create query's resolution to the next await or the handler's end.
\* Reading a property of a missing data object or result, or the id of a null
\* customization, raises a TypeError inside the try block.
PaymentAfterCreate(payload, r, s, c) ==
  IF r.data # "result" THEN CatchBlock(TypeError, s, c)
  ELSE LET h == HandleUserError(r.userErrors, s) IN
       IF h.returned THEN Outcome("returned", h.res, c, NoError)
       ELSE IF r.customization.isNull THEN CatchBlock(TypeError, h.res, c)
       ELSE Outcome("awaitMetafield", h.res,
                    Append(c, PaymentMetafieldQuery(payload, CustomizationId(r))), NoError)

DeliveryAfterCreate(payload, r, s, c) ==
  IF r.data # "result" THEN CatchBlock(TypeError, s, c)
  ELSE LET h == HandleUserError(r.userErrors, s) IN
       IF h.returned THEN Outcome("returned", h.res, c, NoError)
       ELSE IF r.customization.isNull THEN CatchBlock(TypeError, h.res, c)
       ELSE Outcome("awaitMetafield", h.res,
                    Append(c, DeliveryMetafieldQuery(payload, CustomizationId(r))), NoError)

PaymentAfterMetafield_NoFinalSend(r, s, c) ==
  IF r.data = "missing" THEN CatchBlock(TypeError, s, c)
  ELSE LET h == HandleUserError(MetafieldResult(r), s) IN
       Outcome("returned", h.res, c, NoError)

\* From the metafieldsSet query's resolution to the handler's end.
PaymentAfterMetafield(r, s, c) ==
  IF r.data = "missing" THEN CatchBlock(TypeError, s, c)
  ELSE LET h == HandleUserError(MetafieldResult(r), s) IN
       IF h.returned THEN Outcome("returned", h.res, c, NoError)
       ELSE Outcome("returned", Send(h.res, StatusOk, EmptyBody), c, NoError)

DeliveryAfterMetafield(r, s, c) ==
  IF r.data = "missing" THEN CatchBlock(TypeError, s, c)
  ELSE LET h == HandleUserError(MetafieldResult(r), s) IN
       IF h.returned THEN Outcome("returned", h.res, c, NoError)
       ELSE Outcome("returned", Send(h.res, StatusOk, EmptyBody), c, NoError)

-----------------------------------------------------------------------------
(* The state machine *)

Init ==
  /\ pc = "received"
  /\ body \in Bodies
  /\ requestName = Undefined
  /\ calls = <<>>
  /\ createResponse = NoResponse
  /\ metafieldResponse = NoResponse
  /\ error = NoError
  /\ res = <<>>

Become(o) ==
  /\ pc' = o.pc
  /\ res' = o.res
  /\ calls' = o.calls
  /\ error' = o.error

\* delete requestBody.requestName
DeleteRequestName(b) == [b EXCEPT !.requestName = Undefined]

\* app.post('/api/graphql'), case 'createDeliveryCustomization', up to the
\* handler's first await
DispatchDelivery ==
  /\ pc = "received"
  /\ Route(body.requestName) = "createDeliveryCustomization"
  /\ requestName' = body.requestName
  /\ body' = DeleteRequestName(body)
  /\ calls' = Append(calls, DeliveryCreateQuery(body'))
  /\ pc' = "awaitCreate"
  /\ UNCHANGED <<createResponse, metafieldResponse, error, res>>

\* case 'createPaymentCustomization', up to the handler's first await
DispatchPayment ==
  /\ pc = "received"
  /\ Route(body.requestName) = "createPaymentCustomization"
  /\ requestName' = body.requestName
  /\ body' = DeleteRequestName(body)
  /\ calls' = Append(calls, PaymentCreateQuery(body'))
  /\ pc' = "awaitCreate"
  /\ UNCHANGED <<createResponse, metafieldResponse, error, res>>

\* default: return
DispatchDefault ==
  /\ pc = "received"
  /\ Route(body.requestName) = "default"
  /\ requestName' = body.requestName
  /\ body' = DeleteRequestName(body)
  /\ pc' = "returned"
  /\ UNCHANGED <<calls, createResponse, metafieldResponse, error, res>>

PaymentCreateResolves ==
  /\ pc = "awaitCreate"
  /\ Route(requestName) = "createPaymentCustomization"
  /\ \E r \in CreateResponses :
       /\ createResponse' = r
       /\ Become(PaymentAfterCreate(body, r, res, calls))
  /\ UNCHANGED <<body, requestName, metafieldResponse>>

DeliveryCreateResolves ==
  /\ pc = "awaitCreate"
  /\ Route(requestName) = "createDeliveryCustomization"
  /\ \E r \in CreateResponses :
       /\ createResponse' = r
       /\ Become(DeliveryAfterCreate(body, r, res, calls))
  /\ UNCHANGED <<body, requestName, metafieldResponse>>

\* the awaited create query rejects
CreateRejects ==
  /\ pc = "awaitCreate"
  /\ \E e \in ClientErrors : Become(CatchBlock(e, res, calls))
  /\ UNCHANGED <<body, requestName, createResponse, metafieldResponse>>

PaymentMetafieldResolves ==
  /\ pc = "awaitMetafield"
  /\ Route(requestName) = "createPaymentCustomization"
  /\ \E r \in MetafieldResponses :
       /\ metafieldResponse' = r
       /\ Become(PaymentAfterMetafield(r, res, calls))
  /\ UNCHANGED <<body, requestName, createResponse>>

DeliveryMetafieldResolves ==
  /\ pc = "awaitMetafield"
  /\ Route(requestName) = "createDeliveryCustomization"
  /\ \E r \in MetafieldResponses :
       /\ metafieldResponse' = r
       /\ Become(DeliveryAfterMetafield(r, res, calls))
  /\ UNCHANGED <<body, requestName, createResponse>>

\* the awaited metafieldsSet query rejects
MetafieldRejects ==
  /\ pc = "awaitMetafield"
  /\ \E e \in ClientErrors : Become(CatchBlock(e, res, calls))
  /\ UNCHANGED <<body, requestName, createResponse, metafieldResponse>>

Next ==
  \/ DispatchDelivery
  \/ DispatchPayment
  \/ DispatchDefault
  \/ PaymentCreateResolves
  \/ DeliveryCreateResolves
  \/ CreateRejects
  \/ PaymentMetafieldResolves
  \/ DeliveryMetafieldResolves
  \/ MetafieldRejects

Spec == Init /\ [][Next]_vars

-----------------------------------------------------------------------------
(* Vocabulary of the properties *)

IsDelivery == requestName = DeliveryName
IsPayment == requestName = PaymentName
Recognized == IsDelivery \/ IsPayment

CreateMutations == {"DeliveryCustomizationCreate", "PaymentCustomizationCreate"}
MetafieldSetIssued == \E i \in 1..Len(calls) : calls[i].mutation = "MetafieldsSet"

NonEmptyList(v) == v.t = "array" /\ v.elems # <<>>
EmptyList(v) == v.t = "array" /\ v.elems = <<>>

CreateReportedErrors == createResponse.data = "result" /\ NonEmptyList(createResponse.userErrors)
CreateSucceeded == createResponse.data = "result" /\ EmptyList(createResponse.userErrors)
MetafieldReportedErrors ==
  metafieldResponse.data = "result" /\ NonEmptyList(metafieldResponse.userErrors)
MetafieldSucceeded ==
  metafieldResponse.data = "result" /\ EmptyList(metafieldResponse.userErrors)

\* The create step ran to its end: a result without user errors (an empty or
\* missing list) and with a customization to read the id of.
CreateStepCompleted ==
  /\ createResponse.data = "result"
  /\ ~NonEmptyList(createResponse.userErrors)
  /\ ~createResponse.customization.isNull

\* Where message i starts in the joined text, less one.
RECURSIVE Offset(_, _)
Offset(msgs, i) == IF i = 1 THEN 0 ELSE Offset(msgs, i - 1) + Len(msgs[i - 1].message) + 1

\* text is the messages in order with exactly one space between neighbours.
IsSpaceJoined(text, msgs) ==
  LET n == Len(msgs) IN
  /\ n > 0
  /\ Len(text) = Offset(msgs, n) + Len(msgs[n].message)
  /\ \A i \in 1..n :
       /\ SubSeq(text, Offset(msgs, i) + 1, Offset(msgs, i) + Len(msgs[i].message))
            = msgs[i].message
       /\ i < n => text[Offset(msgs, i) + Len(msgs[i].message) + 1] = " "

IsJoinedError(response, msgs) ==
  /\ response.status = 500
  /\ response.body.hasError
  /\ response.body.error.t = "string"
  /\ IsSpaceJoined(response.body.error.s, msgs)

\* JSON.parse of an object of string-valued properties: a scanner of its own,
\* reading the text character by character.
ParseFailure == [ok |-> FALSE, val |-> <<>>, next |-> 0]

RECURSIVE ParseString(_, _, _)
ParseString(text, i, acc) ==
  IF i > Len(text) THEN ParseFailure
  ELSE IF text[i] = "\"" THEN [ok |-> TRUE, val |-> acc, next |-> i + 1]
  ELSE IF text[i] = "\\"
       THEN IF i + 1 <= Len(text) /\ text[i + 1] \in {"\"", "\\"}
            THEN ParseString(text, i + 2, Append(acc, text[i + 1]))
            ELSE ParseFailure
  ELSE ParseString(text, i + 1, Append(acc, text[i]))

ParseQuoted(text, i) ==
  IF i <= Len(text) /\ text[i] = "\"" THEN ParseString(text, i + 1, <<>>) ELSE ParseFailure

NotJSON == [ok |-> FALSE, members |-> <<>>]

RECURSIVE ParseMembers(_, _, _)
ParseMembers(text, i, acc) ==
  LET k == ParseQuoted(text, i) IN
  IF ~k.ok \/ k.next > Len(text) \/ text[k.next] # ":" THEN NotJSON
  ELSE LET v == ParseQuoted(text, k.next + 1) IN
       IF ~v.ok \/ v.next > Len(text) THEN NotJSON
       ELSE LET more == Append(acc, [key |-> k.val, value |-> v.val]) IN
            IF text[v.next] = "," THEN ParseMembers(text, v.next + 1, more)
            ELSE IF text[v.next] = "}" /\ v.next = Len(text)
                 THEN [ok |-> TRUE, members |-> more]
                 ELSE NotJSON

JSONParse(text) ==
  IF Len(text) < 2 \/ text[1] # "{" THEN NotJSON
  ELSE IF text = <<"{", "}">> THEN [ok |-> TRUE, members |-> <<>>]
  ELSE ParseMembers(text, 2, <<>>)

\* The object holding the payload's fields that are present, under the given names.
Present(props) ==
  LET kept == SelectSeq(props, LAMBDA p : p.value.t # "undefined") IN
  [ok |-> TRUE, members |-> [i \in 1..Len(kept) |-> [key |-> kept[i].key, value |-> kept[i].value.s]]]

DeliveryFields ==
  Present(<<[key |-> KeyZip, value |-> body.zip], [key |-> KeyMessage, value |-> body.message]>>)
PaymentFields ==
  Present(<<[key |-> KeyPaymentMethod, value |-> body.paymentMethod],
            [key |-> KeyCartTotal, value |-> body.cartTotal]>>)
PaymentFieldsRenamed ==
  Present(<<[key |-> KeyPaymentMethodName, value |-> body.paymentMethod],
            [key |-> KeyCartTotal, value |-> body.cartTotal]>>)

-----------------------------------------------------------------------------
(* Properties *)

\* C1: when the create mutation's response carries a non-empty userErrors
\* list, the handler has responded 500 (once), has returned, and no
\* metafieldsSet query was issued.
C1_CreateErrorsStopBeforeMetafield ==
  CreateReportedErrors =>
    /\ pc = "returned"
    /\ Len(res) = 1 /\ res[1].status = 500
    /\ ~MetafieldSetIssued

C1_Witness ==
  /\ IsDelivery /\ CreateReportedErrors /\ ~createResponse.customization.isNull
  /\ pc = "returned"

\* C2: when create succeeded and the metafieldsSet response carries a
\* non-empty userErrors list, the handler has responded 500 with the
\* space-joined messages of that list (and nothing else).
C2_MetafieldErrorsRespond500 ==
  (CreateSucceeded /\ MetafieldReportedErrors) =>
    /\ Len(res) = 1
    /\ IsJoinedError(res[1], metafieldResponse.userErrors.elems)

\* C3: when both mutations return an empty userErrors list, the handler has
\* responded 200 with an empty body and has sent no other response.
C3_BothSucceedRespond200 ==
  (CreateSucceeded /\ MetafieldSucceeded) =>
    /\ pc = "returned"
    /\ res = <<[status |-> 200, body |-> EmptyBody]>>

C3_Witness == IsPayment /\ CreateSucceeded /\ MetafieldSucceeded /\ pc = "returned"

\* C4: a GraphqlQueryError raised during the create call (the create query
\* never resolved) yields one 500 response whose error is the exception's
\* response, and no metafieldsSet query.
C4_QueryErrorOnCreate ==
  (error.class = "GraphqlQueryError" /\ createResponse.data = "pending") =>
    /\ pc = "returned"
    /\ res = <<[status |-> 500, body |-> [hasError |-> TRUE, error |-> error.response]]>>
    /\ ~MetafieldSetIssued

C4_Witness ==
  /\ IsPayment /\ error.class = "GraphqlQueryError" /\ createResponse.data = "pending"
  /\ error.response = Obj("response2") /\ Len(res) = 1

\* C5: a request whose requestName is neither handler's name (or absent)
\* issues no query, sends no response and raises nothing.
C5_UnknownNameIsIgnored ==
  (pc # "received" /\ ~Recognized) =>
    /\ pc = "returned"
    /\ calls = <<>>
    /\ res = <<>>
    /\ error = NoError

C5_Witness == pc = "returned" /\ requestName = Str(<<"unknown">>) /\ body.zip # Undefined

\* C6 as stated: the configurationValue of a metafieldsSet query parses to the
\* payload's kind-specific fields under their own names (delivery: zip,
\* message; payment: paymentMethod, cartTotal).
C6_ConfigurationUnderPayloadNames ==
  \A i \in 1..Len(calls) :
    calls[i].mutation = "MetafieldsSet" =>
      JSONParse(calls[i].configurationValue) = (IF IsDelivery THEN DeliveryFields ELSE PaymentFields)

\* C6 as amended: the configurationValue parses to the payload's kind-specific
\* values, under the payload's names for delivery (zip, message) and under
\* paymentMethodName (for the payload's paymentMethod) and cartTotal for payment.
C6_ConfigurationRoundTrip ==
  \A i \in 1..Len(calls) :
    calls[i].mutation = "MetafieldsSet" =>
      JSONParse(calls[i].configurationValue)
        = (IF IsDelivery THEN DeliveryFields ELSE PaymentFieldsRenamed)

C6_Witness ==
  /\ IsPayment /\ MetafieldSetIssued
  /\ body.paymentMethod = Str(<<"\"">>) /\ body.cartTotal = Str(<<"\\">>)

\* C7: handleUserError on the create result's userErrors (res still empty):
\* a non-empty list sends 500 with the messages joined in order by single
\* spaces and returns true (the handler returns at once); an empty or missing
\* list sends nothing and returns false (the handler goes on to read the id,
\* and no response of the invocation carries a message string).
C7_HandleUserError ==
  createResponse.data = "result" =>
    IF NonEmptyList(createResponse.userErrors)
    THEN /\ pc = "returned"
         /\ Len(res) = 1
         /\ IsJoinedError(res[1], createResponse.userErrors.elems)
    ELSE /\ \A i \in 1..Len(res) : res[i].body.error.t # "string"
         /\ pc = "awaitMetafield" => res = <<>>
         /\ IF createResponse.customization.isNull
            THEN pc = "thrown" /\ error = TypeError /\ res = <<>>
            ELSE MetafieldSetIssued

C7_Witness ==
  /\ pc = "returned" /\ createResponse.data = "result"
  /\ createResponse.userErrors = Arr(<<[message |-> <<"A">>], [message |-> <<"B", " ", "r">>]>>)
  /\ Len(res) = 1
  /\ res[1].body.error.s = <<"A", " ", "B", " ", "r">>

\* C8: at most two queries, the first a create and the second a metafieldsSet;
\* a metafieldsSet query is in the log only once the create query has resolved
\* to a result with a customization, whose id is its ownerId; nothing is
\* issued twice and nothing else (such as a delete) is issued.
C8_SequentialBoundedCalls ==
  /\ Len(calls) <= 2
  /\ \A i \in 1..Len(calls) :
       /\ i = 1 => calls[i].mutation \in CreateMutations
       /\ i = 2 =>
            /\ calls[i].mutation = "MetafieldsSet"
            /\ createResponse.data = "result"
            /\ ~createResponse.customization.isNull
            /\ calls[i].customizationId = createResponse.customization.id
  /\ (pc = "awaitCreate" => Len(calls) = 1)

C8_Witness ==
  /\ pc = "returned" /\ IsDelivery /\ Len(calls) = 2
  /\ calls[2].customizationId = "gid2"
  /\ MetafieldReportedErrors

\* C9: an exception other than a GraphqlQueryError, from either query or from
\* reading its response, is thrown on: the handler has sent no response, and
\* the queries issued are those issued before the exception (the create query
\* alone unless the create step had completed).
C9_OtherExceptionsPropagate ==
  (error.class \notin {"none", "GraphqlQueryError"}) =>
    /\ pc = "thrown"
    /\ res = <<>>
    /\ Len(calls) = (IF CreateStepCompleted THEN 2 ELSE 1)

C9_Witness ==
  /\ pc = "thrown" /\ error = TypeError /\ createResponse.data = "missing" /\ IsPayment

\* C10: at most one response is ever sent, and a recognized request whose
\* handler has returned (not thrown) has sent exactly one, with status 200 or 500.
C10_AtMostOneResponse ==
  /\ Len(res) <= 1
  /\ (pc = "returned" /\ Recognized) =>
       /\ Len(res) = 1
       /\ res[1].status \in {200, 500}

C10_Witness ==
  /\ pc = "returned" /\ IsDelivery /\ Len(calls) = 2 /\ Len(res) = 1
  /\ res[1].status = 200 /\ metafieldResponse.data = "nullResult"

====
